---- MODULE Spec2Model ----
(***************************************************************************)
(* Model of the PCK viewer: the byte-pattern scanner and record decoder   *)
(* (PCKParser.find_vertex_patterns), the index remapper (PCKParser.parse) *)
(* and the window operations that load and export a model (MainWindow).   *)
(* Offsets are 0-based as in the source; a buffer is a sequence of bytes. *)
(***************************************************************************)
EXTENDS Integers, Sequences, FiniteSets, TLC

\* ------------------------------------------------------------------ bytes

\* data[k] for a 0-based offset k
At(data, k) == data[k + 1]

\* data[a:b] with Python's clamping of the end
Slice(data, a, b) ==
  LET e == IF b > Len(data) THEN Len(data) ELSE b
  IN  IF a >= e THEN << >> ELSE SubSeq(data, a + 1, e)

\* struct '<h': little-endian signed 16 bit at offset k
S16(data, k) ==
  LET u == At(data, k) + 256 * At(data, k + 1)
  IN  IF u >= 32768 THEN u - 65536 ELSE u

MinOf(S) == CHOOSE x \in S : \A y \in S : x <= y

\* bytes.find(sub, from): least offset >= from where sub occurs, else -1
Find(data, sub, from) ==
  LET hits == {k \in from .. (Len(data) - Len(sub)) :
                 Slice(data, k, k + Len(sub)) = sub}
  IN  IF hits = {} THEN -1 ELSE MinOf(hits)

\* ------------------------------------------------------------ pattern table

PatternNames == <<"pattern1", "pattern2">>

prefix(p) == IF p = "pattern1" THEN <<238, 0>> ELSE <<27, 2>>

faces_prefix(p) == IF p = "pattern1" THEN <<154, 0>> ELSE <<199, 1>>

uv_prefix(p) == IF p = "pattern1" THEN <<196, 0>> ELSE <<241, 1>>

MaxXX == 42

VertexTerminator == 105

UVTerminator == 101

FaceTerminator == 106

VertexSize == 6

UVSize == 4

FaceSize == 3

FacePadding == 6

ErrRead == "Error reading the file"

ErrVertices == "Corrupted or incomplete PCK file (vertices)."

ErrUVs == "Corrupted or incomplete PCK file (UVs)."

ErrFaces == "Corrupted or incomplete PCK file (faces)."

ErrFaceNotFound == "Face pattern not found."

\* f"Invalid face format in group {group['pattern']}."
ErrFaceFormat == "Invalid face format in group"

\* ---------------------------------------------------------------- scanner

\* the loop condition of the scan
LoopCond(data, i) == i < Len(data) - 4

\* the range test with the upper limit excluded
CountInRange_Exclusive(XX) == 0 <= XX /\ XX < MaxXX

\* `if not (0x00 <= XX <= 0x2A): continue`
CountInRange(XX) == 0 <= XX /\ XX <= MaxXX

\* a candidate header taken without the test of its fourth byte
HeaderMatches_NoTerminator(data, i, p) ==
  /\ Slice(data, i, i + 2) = prefix(p)
  /\ CountInRange(At(data, i + 2))

\* the three tests a candidate header passes for pattern p at offset i
HeaderMatches(data, i, p) ==
  /\ Slice(data, i, i + 2) = prefix(p)
  /\ CountInRange(At(data, i + 2))
  /\ At(data, i + 3) = VertexTerminator

\* the patterns matching at i, in the order the for loop tries them
MatchingPatterns(data, i) ==
  SelectSeq(PatternNames, LAMBDA p : HeaderMatches(data, i, p))

\* one face record too many
FacesBytesCount_OneMore(XX) == (XX - 1) * FaceSize

\* faces_bytes_count = (XX - 2) * 3
FacesBytesCount(XX) == (XX - 2) * FaceSize

\* len(range(0, n, step))
RangeLen(n, step) == IF n <= 0 THEN 0 ELSE (n + step - 1) \div step

\* only a zero byte taken as active
IsActive_ZeroOnly(value) == value = 0

\* value % 2 == 0
IsActive(value) == value % 2 = 0

\* the bound check of the third index off by one
DecodeFaces_OffByOne(data, faces_start, XX) ==
  LET n   == RangeLen(FacesBytesCount(XX), FaceSize)
      all == [k \in 1 .. n |->
                [indices |-> <<k, k + 1, k + 2>>,
                 byte    |-> At(data, faces_start + FaceSize * (k - 1))]]
  IN  SelectSeq(all, LAMBDA f : ~(f.indices[3] >= XX))

\* face records numbered from 0
DecodeFaces_ZeroBased(data, faces_start, XX) ==
  LET n   == RangeLen(FacesBytesCount(XX), FaceSize)
      all == [k \in 1 .. n |->
                [indices |-> <<k - 1, k, k + 1>>,
                 byte    |-> At(data, faces_start + FaceSize * (k - 1))]]
  IN  SelectSeq(all, LAMBDA f : ~(f.indices[3] > XX))

\* the face records decoded from the face block at faces_start
DecodeFaces(data, faces_start, XX) ==
  LET n   == RangeLen(FacesBytesCount(XX), FaceSize)
      all == [k \in 1 .. n |->
                [indices |-> <<k, k + 1, k + 2>>,
                 byte    |-> At(data, faces_start + FaceSize * (k - 1))]]
  IN  SelectSeq(all, LAMBDA f : ~(f.indices[3] > XX))

DecodeVertices(data, vertices_start, XX) ==
  [k \in 1 .. XX |->
     <<S16(data, vertices_start + VertexSize * (k - 1)),
       S16(data, vertices_start + VertexSize * (k - 1) + 2),
       S16(data, vertices_start + VertexSize * (k - 1) + 4)>>]

DecodeUVs(data, uv_start, XX) ==
  [k \in 1 .. XX |->
     <<S16(data, uv_start + UVSize * (k - 1)),
       S16(data, uv_start + UVSize * (k - 1) + 2)>>]

\* a UV header taken whatever count it states
UVHeaderAt_AnyCount(data, pos, p, XX) ==
  /\ pos + 4 <= Len(data)
  /\ Slice(data, pos, pos + 2) = uv_prefix(p)
  /\ At(data, pos + 3) = UVTerminator

\* whether the UV header of pattern p with count XX sits at pos
UVHeaderAt(data, pos, p, XX) ==
  /\ pos + 4 <= Len(data)
  /\ Slice(data, pos, pos + 4) = uv_prefix(p) \o <<XX, UVTerminator>>

\* a group accepted with the cursor left on its header
ReadGroup_Rewind(data, i, p, color) ==
  LET XX             == At(data, i + 2)
      vertices_start == i + 4
      vertices_end   == vertices_start + XX * VertexSize
      has_uv         == UVHeaderAt(data, vertices_end, p, XX)
      uv_start       == vertices_end + 4
      uvs_end        == uv_start + XX * UVSize
      pos_after_uv   == IF has_uv THEN uvs_end ELSE vertices_end
      pos_faces      == Find(data, faces_prefix(p) \o <<XX, FaceTerminator>>,
                             pos_after_uv)
      faces_start    == pos_faces + 4 + FacePadding
      faces_end      == faces_start + FacesBytesCount(XX)
      fail(msg)      == [ok |-> FALSE, err |-> msg, group |-> << >>, next_i |-> i]
      faces          == DecodeFaces(data, faces_start, XX)
  IN  IF vertices_end > Len(data) THEN fail(ErrVertices)
      ELSE IF has_uv /\ uvs_end > Len(data) THEN fail(ErrUVs)
      ELSE IF pos_faces = -1 THEN fail(ErrFaceNotFound)
      ELSE IF faces_end > Len(data) THEN fail(ErrFaces)
      ELSE [ok     |-> TRUE,
            err    |-> "",
            group  |-> [pattern        |-> p,
                        start          |-> i,
                        XX             |-> XX,
                        vertices       |-> DecodeVertices(data, vertices_start, XX),
                        uvs            |-> IF has_uv
                                           THEN DecodeUVs(data, uv_start, XX)
                                           ELSE << >>,
                        active_faces   |-> SelectSeq(faces, LAMBDA f : IsActive(f.byte)),
                        inactive_faces |-> SelectSeq(faces, LAMBDA f : ~IsActive(f.byte)),
                        color          |-> color,
                        vertices_offset |-> vertices_start,
                        vertices_end   |-> vertices_end,
                        faces_offset   |-> pos_faces,
                        faces_end      |-> pos_faces + 4 + FacesBytesCount(XX)],
            next_i |-> i]

\* a group whose face signature is missing taken without faces
ReadGroup_NoFaces(data, i, p, color) ==
  LET XX             == At(data, i + 2)
      vertices_start == i + 4
      vertices_end   == vertices_start + XX * VertexSize
      has_uv         == UVHeaderAt(data, vertices_end, p, XX)
      uv_start       == vertices_end + 4
      uvs_end        == uv_start + XX * UVSize
      pos_after_uv   == IF has_uv THEN uvs_end ELSE vertices_end
      pos_faces      == Find(data, faces_prefix(p) \o <<XX, FaceTerminator>>,
                             pos_after_uv)
      faces_start    == pos_faces + 4 + FacePadding
      faces_end      == faces_start + FacesBytesCount(XX)
      fail(msg)      == [ok |-> FALSE, err |-> msg, group |-> << >>, next_i |-> i]
      faces          == DecodeFaces(data, faces_start, XX)
  IN  IF vertices_end > Len(data) THEN fail(ErrVertices)
      ELSE IF has_uv /\ uvs_end > Len(data) THEN fail(ErrUVs)
      ELSE IF pos_faces = -1
      THEN [ok     |-> TRUE,
            err    |-> "",
            group  |-> [pattern        |-> p,
                        start          |-> i,
                        XX             |-> XX,
                        vertices       |-> DecodeVertices(data, vertices_start, XX),
                        uvs            |-> IF has_uv
                                           THEN DecodeUVs(data, uv_start, XX)
                                           ELSE << >>,
                        active_faces   |-> << >>,
                        inactive_faces |-> << >>,
                        color          |-> color,
                        vertices_offset |-> vertices_start,
                        vertices_end   |-> vertices_end,
                        faces_offset   |-> pos_after_uv,
                        faces_end      |-> pos_after_uv],
            next_i |-> pos_after_uv + 1]
      ELSE IF faces_end > Len(data) THEN fail(ErrFaces)
      ELSE [ok     |-> TRUE,
            err    |-> "",
            group  |-> [pattern        |-> p,
                        start          |-> i,
                        XX             |-> XX,
                        vertices       |-> DecodeVertices(data, vertices_start, XX),
                        uvs            |-> IF has_uv
                                           THEN DecodeUVs(data, uv_start, XX)
                                           ELSE << >>,
                        active_faces   |-> SelectSeq(faces, LAMBDA f : IsActive(f.byte)),
                        inactive_faces |-> SelectSeq(faces, LAMBDA f : ~IsActive(f.byte)),
                        color          |-> color,
                        vertices_offset |-> vertices_start,
                        vertices_end   |-> vertices_end,
                        faces_offset   |-> pos_faces,
                        faces_end      |-> pos_faces + 4 + FacesBytesCount(XX)],
            next_i |-> faces_end]

\* The body of the for loop once pattern p matched at offset i: the group is
\* read, or the scan fails. Result: [ok, err, group, next_i].
ReadGroup(data, i, p, color) ==
  LET XX             == At(data, i + 2)
      vertices_start == i + 4
      vertices_end   == vertices_start + XX * VertexSize
      has_uv         == UVHeaderAt(data, vertices_end, p, XX)
      uv_start       == vertices_end + 4
      uvs_end        == uv_start + XX * UVSize
      pos_after_uv   == IF has_uv THEN uvs_end ELSE vertices_end
      pos_faces      == Find(data, faces_prefix(p) \o <<XX, FaceTerminator>>,
                             pos_after_uv)
      faces_start    == pos_faces + 4 + FacePadding
      faces_end      == faces_start + FacesBytesCount(XX)
      fail(msg)      == [ok |-> FALSE, err |-> msg, group |-> << >>, next_i |-> i]
      faces          == DecodeFaces(data, faces_start, XX)
  IN  IF vertices_end > Len(data) THEN fail(ErrVertices)
      ELSE IF has_uv /\ uvs_end > Len(data) THEN fail(ErrUVs)
      ELSE IF pos_faces = -1 THEN fail(ErrFaceNotFound)
      ELSE IF faces_end > Len(data) THEN fail(ErrFaces)
      ELSE [ok     |-> TRUE,
            err    |-> "",
            group  |-> [pattern        |-> p,
                        start          |-> i,
                        XX             |-> XX,
                        vertices       |-> DecodeVertices(data, vertices_start, XX),
                        uvs            |-> IF has_uv
                                           THEN DecodeUVs(data, uv_start, XX)
                                           ELSE << >>,
                        active_faces   |-> SelectSeq(faces, LAMBDA f : IsActive(f.byte)),
                        inactive_faces |-> SelectSeq(faces, LAMBDA f : ~IsActive(f.byte)),
                        color          |-> color,
                        vertices_offset |-> vertices_start,
                        vertices_end   |-> vertices_end,
                        faces_offset   |-> pos_faces,
                        faces_end      |-> pos_faces + 4 + FacesBytesCount(XX)],
            next_i |-> faces_end]

\* The scanner's state: cursor, groups found, and how the scan stands
\* ("scan" while the loop runs, "failed" after return False, "scanned" once
\* the loop is left).
ScanStart ==
  [i |-> 0, vertex_groups |-> << >>, status |-> "scan", error_message |-> ""]

\* an iteration that takes a group it cannot read for a non-match and goes on
ScanIter_Resume(data, st, color) ==
  LET m == MatchingPatterns(data, st.i)
  IN  IF m = << >>
      THEN [st EXCEPT !.i = st.i + 1]
      ELSE LET r == ReadGroup(data, st.i, m[1], color)
           IN  IF r.ok
               THEN [st EXCEPT !.vertex_groups = Append(st.vertex_groups, r.group),
                               !.i = r.next_i]
               ELSE [st EXCEPT !.i = st.i + 1]

\* an iteration that puts the group it read at the head of the list
ScanIter_Prepend(data, st, color) ==
  LET m == MatchingPatterns(data, st.i)
  IN  IF m = << >>
      THEN [st EXCEPT !.i = st.i + 1]
      ELSE LET r == ReadGroup(data, st.i, m[1], color)
           IN  IF r.ok
               THEN [st EXCEPT !.vertex_groups = <<r.group>> \o st.vertex_groups,
                               !.i = r.next_i]
               ELSE [st EXCEPT !.status = "failed", !.error_message = r.err]

\* One iteration of the while loop at cursor st.i (LoopCond holds).
ScanIter(data, st, color) ==
  LET m == MatchingPatterns(data, st.i)
  IN  IF m = << >>
      THEN [st EXCEPT !.i = st.i + 1]
      ELSE LET r == ReadGroup(data, st.i, m[1], color)
           IN  IF r.ok
               THEN [st EXCEPT !.vertex_groups = Append(st.vertex_groups, r.group),
                               !.i = r.next_i]
               ELSE [st EXCEPT !.status = "failed", !.error_message = r.err]

\* generate_group_color(): the n-th draw (n from 0) of the random stream rnd
ColorAt(rnd, n) == rnd[(n % Len(rnd)) + 1]

\* Whole scan from st: the while loop run to its end (used by handlers that
\* call parse() in one go). rnd is the stream of colours random() yields.
RECURSIVE ScanFrom(_, _, _)
ScanFrom(data, st, rnd) ==
  IF st.status # "scan" THEN st
  ELSE IF ~LoopCond(data, st.i) THEN [st EXCEPT !.status = "scanned"]
  ELSE ScanFrom(data, ScanIter(data, st, ColorAt(rnd, Len(st.vertex_groups))), rnd)

\* what find_vertex_patterns() leaves once the loop ended in st
ScanResult(st) ==
  [ok            |-> st.status = "scanned",
   vertex_groups |-> st.vertex_groups,
   error_message |-> st.error_message]

\* find_vertex_patterns(): [ok, vertex_groups, error_message]
find_vertex_patterns(data, rnd) == ScanResult(ScanFrom(data, ScanStart, rnd))

\* --------------------------------------------------------- index remapper

\* local indices shifted by the base without the change to 0-based
AdjustIndices_OneBased(indices, base_index) ==
  [k \in 1 .. Len(indices) |-> indices[k] + base_index]

\* tuple(idx - 1 + base_index for idx in face['indices'])
AdjustIndices(indices, base_index) ==
  [k \in 1 .. Len(indices) |-> indices[k] - 1 + base_index]

\* isinstance(face, dict) and 'indices' in face
FaceFormatOK(face) == "indices" \in DOMAIN face

\* no face of any group takes the remapping loop to its else branch
FacesFormatOK(groups) ==
  \A k \in 1 .. Len(groups) :
    /\ \A j \in 1 .. Len(groups[k].active_faces) : FaceFormatOK(groups[k].active_faces[j])
    /\ \A j \in 1 .. Len(groups[k].inactive_faces) : FaceFormatOK(groups[k].inactive_faces[j])

\* translated indices tested against the global array as it was before the
\* group's vertices were appended
MeshFaces_BeforeExtend(faces, base_index, nvertices) ==
  LET adjusted == [k \in 1 .. Len(faces) |-> AdjustIndices(faces[k].indices, base_index)]
  IN  SelectSeq(adjusted,
                LAMBDA t : \A k \in 1 .. Len(t) : 0 <= t[k] /\ t[k] < base_index)

\* the faces of a group translated to global indices, out-of-range ones dropped
MeshFaces(faces, base_index, nvertices) ==
  LET adjusted == [k \in 1 .. Len(faces) |-> AdjustIndices(faces[k].indices, base_index)]
  IN  SelectSeq(adjusted,
                LAMBDA t : \A k \in 1 .. Len(t) : 0 <= t[k] /\ t[k] < nvertices)

\* a round that numbers the group's triangles from 0 whatever came before
RemapGroup_SharedBase(group, vertices) ==
  LET base_index == 0
      extended   == vertices \o group.vertices
  IN  [pattern            |-> group.pattern,
       start              |-> group.start,
       XX                 |-> group.XX,
       vertices           |-> group.vertices,
       uvs                |-> group.uvs,
       active_faces       |-> group.active_faces,
       inactive_faces     |-> group.inactive_faces,
       color              |-> group.color,
       vertices_offset    |-> group.vertices_offset,
       vertices_end       |-> group.vertices_end,
       faces_offset       |-> group.faces_offset,
       faces_end          |-> group.faces_end,
       base_index         |-> base_index,
       mesh_active_faces  |-> MeshFaces(group.active_faces, base_index, Len(extended)),
       mesh_inactive_faces |-> MeshFaces(group.inactive_faces, base_index, Len(extended))]

\* a round that writes the translated indices into the group's own face
\* records
RemapGroup_InPlace(group, vertices) ==
  LET base_index == Len(vertices)
      extended   == vertices \o group.vertices
      moved(faces) ==
        [k \in 1 .. Len(faces) |->
           [faces[k] EXCEPT !.indices = AdjustIndices(faces[k].indices, base_index)]]
  IN  [pattern            |-> group.pattern,
       start              |-> group.start,
       XX                 |-> group.XX,
       vertices           |-> group.vertices,
       uvs                |-> group.uvs,
       active_faces       |-> moved(group.active_faces),
       inactive_faces     |-> moved(group.inactive_faces),
       color              |-> group.color,
       vertices_offset    |-> group.vertices_offset,
       vertices_end       |-> group.vertices_end,
       faces_offset       |-> group.faces_offset,
       faces_end          |-> group.faces_end,
       base_index         |-> base_index,
       mesh_active_faces  |-> MeshFaces(group.active_faces, base_index, Len(extended)),
       mesh_inactive_faces |-> MeshFaces(group.inactive_faces, base_index, Len(extended))]

\* one round of the remapping loop: the group gets base_index and its mesh
\* faces, its vertices are appended to the global array
RemapGroup(group, vertices) ==
  LET base_index == Len(vertices)
      extended   == vertices \o group.vertices
  IN  [pattern            |-> group.pattern,
       start              |-> group.start,
       XX                 |-> group.XX,
       vertices           |-> group.vertices,
       uvs                |-> group.uvs,
       active_faces       |-> group.active_faces,
       inactive_faces     |-> group.inactive_faces,
       color              |-> group.color,
       vertices_offset    |-> group.vertices_offset,
       vertices_end       |-> group.vertices_end,
       faces_offset       |-> group.faces_offset,
       faces_end          |-> group.faces_end,
       base_index         |-> base_index,
       mesh_active_faces  |-> MeshFaces(group.active_faces, base_index, Len(extended)),
       mesh_inactive_faces |-> MeshFaces(group.inactive_faces, base_index, Len(extended))]

\* the remapping loop over groups k .. end: [vertex_groups, vertices]
RECURSIVE RemapFrom(_, _, _, _)
RemapFrom(groups, k, done, vertices) ==
  IF k > Len(groups) THEN [vertex_groups |-> done, vertices |-> vertices]
  ELSE RemapFrom(groups, k + 1,
                 Append(done, RemapGroup(groups[k], vertices)),
                 vertices \o groups[k].vertices)

Remap(groups) == RemapFrom(groups, 1, << >>, << >>)

\* ------------------------------------------------------------------ parser

\* the parser once find_vertex_patterns() returned s: remapped if it succeeded
Parsed(s, r) ==
  IF ~s.ok
  THEN [returned |-> FALSE, parse_success |-> FALSE,
        error_message |-> s.error_message,
        vertex_groups |-> s.vertex_groups, vertices |-> << >>]
  ELSE IF ~FacesFormatOK(s.vertex_groups)
  THEN [returned |-> FALSE, parse_success |-> TRUE,
        error_message |-> ErrFaceFormat,
        vertex_groups |-> s.vertex_groups, vertices |-> << >>]
  ELSE [returned |-> TRUE, parse_success |-> TRUE, error_message |-> "",
        vertex_groups |-> r.vertex_groups, vertices |-> r.vertices]

ParsedScan(s) == Parsed(s, Remap(s.vertex_groups))

\* PCKParser(filepath) after parse(): the object's fields and parse()'s
\* return value (returned). file is what the path holds: [readable, bytes].
parse(file, rnd) ==
  IF ~file.readable
  THEN [returned |-> FALSE, parse_success |-> FALSE, error_message |-> ErrRead,
        vertex_groups |-> << >>, vertices |-> << >>]
  ELSE ParsedScan(find_vertex_patterns(file.bytes, rnd))

\* ------------------------------------------------------------- environment
\* The files the environment offers. A well-formed file is the encoding of a
\* list of group descriptions by the grammar
\*   VertexHeader Vertex{N} [UVHeader UV{N}] FaceHeader pad[6] Face{max(0,N-2)}
\* and carries that list (encoded) so that a result can be compared with it.

MaxN == 3

MaxGroups == 2

Variants == {0, 1}

Colors == {"red", "blue"}

Vals == <<0, 1, -1, 256, -32768, 32767, 255>>

Val(j) == Vals[(j % Len(Vals)) + 1]

ClassBytes == <<1, 0, 255, 2>>

LE16(x) ==
  LET u == IF x < 0 THEN x + 65536 ELSE x
  IN  <<u % 256, u \div 256>>

RECURSIVE Flatten(_)
Flatten(ss) == IF ss = << >> THEN << >> ELSE Head(ss) \o Flatten(Tail(ss))

NFaces(n) == IF n >= 2 THEN n - 2 ELSE 0

\* the padding of variant v: zeros, or bytes that read as a count-0 header
PadOf(p, v) ==
  IF v % 2 = 0 THEN <<0, 0, 0, 0, 0, 0>>
  ELSE prefix(p) \o <<0, VertexTerminator, 0, 0>>

\* a group description: pattern p, n vertices, UV block or not, variant v
GroupSpec(p, n, uv, v) ==
  [pattern  |-> p,
   XX       |-> n,
   vertices |-> [k \in 1 .. n |-> <<Val(v + 3 * k), Val(v + 3 * k + 1), Val(v + 3 * k + 2)>>],
   has_uv   |-> uv,
   uvs      |-> IF uv THEN [k \in 1 .. n |-> <<Val(v + 2 * k + 1), Val(v + 2 * k)>>]
                ELSE << >>,
   pad      |-> PadOf(p, v),
   classes  |-> [k \in 1 .. NFaces(n) |-> ClassBytes[((v + k) % Len(ClassBytes)) + 1]]]

EncodeGroup(g) ==
  prefix(g.pattern) \o <<g.XX, VertexTerminator>>
  \o Flatten([k \in 1 .. g.XX |->
                LE16(g.vertices[k][1]) \o LE16(g.vertices[k][2]) \o LE16(g.vertices[k][3])])
  \o (IF g.has_uv
      THEN uv_prefix(g.pattern) \o <<g.XX, UVTerminator>>
           \o Flatten([k \in 1 .. g.XX |-> LE16(g.uvs[k][1]) \o LE16(g.uvs[k][2])])
      ELSE << >>)
  \o faces_prefix(g.pattern) \o <<g.XX, FaceTerminator>>
  \o g.pad
  \o Flatten([k \in 1 .. Len(g.classes) |-> <<g.classes[k], 0, 0>>])

EncodeAll(gs) == Flatten([k \in 1 .. Len(gs) |-> EncodeGroup(gs[k])])

HeadSpecs ==
  {GroupSpec(p, n, uv, v) :
     p \in {"pattern1", "pattern2"}, n \in 0 .. MaxN, uv \in BOOLEAN, v \in Variants}

TailSpecs ==
  {GroupSpec("pattern1", 0, FALSE, 0), GroupSpec("pattern2", MaxN, TRUE, 1)}

RECURSIVE SeqsUpTo(_, _)
SeqsUpTo(S, n) ==
  IF n = 0 THEN {<< >>}
  ELSE LET shorter == SeqsUpTo(S, n - 1)
       IN  shorter \cup {Append(t, x) : t \in shorter, x \in S}

\* the group lists of the well-formed files: a head and up to MaxGroups-1 tails
GroupLists ==
  {<< >>} \cup {<<h>> \o t : h \in HeadSpecs, t \in SeqsUpTo(TailSpecs, MaxGroups - 1)}

WellFormedFile(gs) ==
  [readable |-> TRUE, bytes |-> EncodeAll(gs), wellformed |-> TRUE, encoded |-> gs]

OtherFile(bytes) ==
  [readable |-> TRUE, bytes |-> bytes, wellformed |-> FALSE, encoded |-> << >>]

UnreadableFile ==
  [readable |-> FALSE, bytes |-> << >>, wellformed |-> FALSE, encoded |-> << >>]

WellFormedFiles == {WellFormedFile(gs) : gs \in GroupLists}

\* a single group cut short at every length
TruncatedFiles ==
  UNION {{OtherFile(SubSeq(EncodeGroup(h), 1, n)) : n \in 0 .. Len(EncodeGroup(h)) - 1} :
           h \in {GroupSpec(p, n, uv, 0) :
                    p \in {"pattern1", "pattern2"}, n \in 0 .. MaxN, uv \in BOOLEAN}}

\* the same, after a sound group
PrecededFiles ==
  {OtherFile(EncodeGroup(GroupSpec("pattern2", 2, FALSE, 0)) \o f.bytes) :
     f \in TruncatedFiles}

\* the offsets of the header bytes of a single encoded group
HeaderOffsets(g) ==
  LET vend == 4 + VertexSize * g.XX
      fpos == IF g.has_uv THEN vend + 4 + UVSize * g.XX ELSE vend
  IN  (0 .. 3) \cup (IF g.has_uv THEN vend .. vend + 3 ELSE {}) \cup (fpos .. fpos + 3)

SubstBytes == {43, 255}

\* a single group with one header byte replaced, followed by a sound group
SubstitutedFiles ==
  UNION {{OtherFile([EncodeGroup(h) EXCEPT ![k + 1] = b]
                    \o EncodeGroup(GroupSpec("pattern1", MaxN, FALSE, 0))) :
            k \in HeaderOffsets(h), b \in SubstBytes} :
           h \in {GroupSpec(p, n, uv, 0) :
                    p \in {"pattern1", "pattern2"}, n \in 0 .. MaxN, uv \in BOOLEAN}}

\* a header declaring n vertices over a buffer too short for them, the
\* bytes after the header being a whole sound group
ShortFiles ==
  {OtherFile(pre \o prefix(p) \o <<n, VertexTerminator>> \o EncodeGroup(g)) :
     pre \in {<< >>, EncodeGroup(GroupSpec("pattern2", 2, FALSE, 0))},
     p \in {"pattern1", "pattern2"}, n \in {5, MaxXX},
     g \in {GroupSpec("pattern1", 0, FALSE, 0), GroupSpec("pattern2", 2, TRUE, 0)}}

\* the largest count, whole, and the same bytes with the count one above it
LimitFiles ==
  {WellFormedFile(<<GroupSpec(p, MaxXX, uv, 0)>>) :
     p \in {"pattern1", "pattern2"}, uv \in BOOLEAN}
  \cup {OtherFile([EncodeGroup(GroupSpec(p, MaxXX, FALSE, 0)) EXCEPT ![3] = MaxXX + 1]) :
          p \in {"pattern1", "pattern2"}}
  \cup {OtherFile(prefix(p) \o <<MaxXX + 1, VertexTerminator>>
                   \o EncodeGroup(GroupSpec(p, MaxXX, TRUE, 1))) :
          p \in {"pattern1", "pattern2"}}

\* the 35-byte scenario: EE 00 03 69, 18 zeros, 9A 00 03 6A, 6 pad, 00 00 00
ScenarioBytes ==
  <<238, 0, 3, 105>> \o [k \in 1 .. 18 |-> 0] \o <<154, 0, 3, 106>>
  \o [k \in 1 .. 6 |-> 0] \o <<0, 0, 0>>

OtherPattern(p) == IF p = "pattern1" THEN "pattern2" ELSE "pattern1"

\* a single group whose UV block is headed by the other grammar's UV magic
CrossedFiles ==
  {OtherFile([EncodeGroup(GroupSpec(p, n, TRUE, 0))
                EXCEPT ![4 + VertexSize * n + 1] = uv_prefix(OtherPattern(p))[1],
                       ![4 + VertexSize * n + 2] = uv_prefix(OtherPattern(p))[2]]) :
     p \in {"pattern1", "pattern2"}, n \in 0 .. MaxN}

ScanFiles ==
  WellFormedFiles \cup TruncatedFiles \cup PrecededFiles \cup SubstitutedFiles \cup ShortFiles
  \cup LimitFiles \cup CrossedFiles \cup {OtherFile(ScenarioBytes), UnreadableFile}

\* ------------------------------------------------------------------- state

VARIABLES
  disk,              \* the files that can be chosen, by path 1 .. Len(disk)
  pc,                \* where the parser object is in parse()
  data,              \* PCKParser.data
  i,                 \* the scan cursor
  vertex_groups,     \* PCKParser.vertex_groups
  error_message,     \* PCKParser.error_message
  parse_success,     \* PCKParser.parse_success
  vertices,          \* PCKParser.vertices
  parser,            \* MainWindow.parser: << >> for None, else <<the parser>>
  original_vertices, \* MainWindow.original_vertices
  scale_enabled,     \* MainWindow.scale_enabled
  current_shading,   \* MainWindow.current_shading
  shading_index,     \* the current index of the shading combo box
  inactive_checkbox, \* the show-inactive-faces checkbox
  mesh_groups,       \* MainWindow.mesh_groups: the groups drawn, by number
  mesh_inactive,     \* MainWindow.mesh_inactive: "none", "hidden" or "visible"
  window_title,      \* the path in the window title, 0 for none
  opened,            \* the path the last handler's open dialog gave, else 0
  dialog,            \* the message box the last handler showed
  written            \* the document the last successful export wrote

parservars == <<pc, data, i, vertex_groups, error_message, parse_success, vertices>>

winvars ==
  <<parser, original_vertices, scale_enabled, current_shading, shading_index,
    inactive_checkbox, mesh_groups, mesh_inactive, window_title, opened, dialog,
    written>>

vars == <<disk, parservars, winvars>>

NoDialog == [kind |-> "none", text |-> ""]

\* MainWindow.__init__
WindowInit ==
  /\ parser = << >>
  /\ original_vertices = << >>
  /\ scale_enabled = FALSE
  /\ current_shading = "Smooth"
  /\ shading_index = 0
  /\ inactive_checkbox = FALSE
  /\ mesh_groups = << >>
  /\ mesh_inactive = "none"
  /\ window_title = 0
  /\ opened = 0
  /\ dialog = NoDialog
  /\ written = << >>

\* PCKParser.__init__
ParserInit ==
  /\ pc = "new"
  /\ data = << >>
  /\ i = 0
  /\ vertex_groups = << >>
  /\ error_message = ""
  /\ parse_success = FALSE
  /\ vertices = << >>

\* ------------------------------------------- the parser, one step at a time

ScanInit ==
  /\ disk \in {<<f>> : f \in ScanFiles}
  /\ ParserInit
  /\ WindowInit

\* read_pck_file() and the test parse() makes of it
ReadFile ==
  /\ pc = "new"
  /\ IF disk[1].readable
     THEN /\ data' = disk[1].bytes
          /\ pc' = "scan"
          /\ UNCHANGED error_message
     ELSE /\ error_message' = ErrRead
          /\ pc' = "failed"
          /\ UNCHANGED data
  /\ UNCHANGED <<disk, i, vertex_groups, parse_success, vertices, winvars>>

\* one iteration of the while loop
ScanStep ==
  /\ pc = "scan"
  /\ LoopCond(data, i)
  /\ \E color \in Colors :
       LET st == ScanIter(data,
                          [i |-> i, vertex_groups |-> vertex_groups,
                           status |-> "scan", error_message |-> error_message],
                          color)
       IN  /\ i' = st.i
           /\ vertex_groups' = st.vertex_groups
           /\ error_message' = st.error_message
           /\ pc' = IF st.status = "failed" THEN "failed" ELSE "scan"
  /\ UNCHANGED <<disk, data, parse_success, vertices, winvars>>

\* the loop is left: the totals are printed and parse_success is set
ScanExit ==
  /\ pc = "scan"
  /\ ~LoopCond(data, i)
  /\ parse_success' = TRUE
  /\ pc' = "remap"
  /\ UNCHANGED <<disk, data, i, vertex_groups, error_message, vertices, winvars>>

\* the rest of parse(): global vertex array and mesh faces
RemapStep ==
  /\ pc = "remap"
  /\ IF FacesFormatOK(vertex_groups)
     THEN /\ LET r == Remap(vertex_groups)
             IN  /\ vertex_groups' = r.vertex_groups
                 /\ vertices' = r.vertices
          /\ parse_success' = TRUE
          /\ pc' = "done"
          /\ UNCHANGED error_message
     ELSE /\ error_message' = ErrFaceFormat
          /\ pc' = "failed"
          /\ UNCHANGED <<vertex_groups, vertices, parse_success>>
  /\ UNCHANGED <<disk, data, i, winvars>>

ScanNext == ReadFile \/ ScanStep \/ ScanExit \/ RemapStep

SpecScan == ScanInit /\ [][ScanNext]_vars

\* ----------------------------------------- one parser object, parsed again

\* the most groups an object may hold when parse() is called on it again
MaxReparsedGroups == 2

\* the states of the file at the object's path: two sound files, one cut
\* inside its vertex block, one without face signature, and no file
ReuseFiles ==
  {WellFormedFile(<<GroupSpec("pattern2", MaxN, TRUE, 1)>>),
   WellFormedFile(<<GroupSpec("pattern1", 1, FALSE, 0)>>),
   OtherFile(SubSeq(EncodeGroup(GroupSpec("pattern1", MaxN, FALSE, 0)), 1, 8)),
   OtherFile(SubSeq(EncodeGroup(GroupSpec("pattern2", 2, FALSE, 0)), 1, 16)
             \o <<0, 0, 0, 0, 0>>),
   UnreadableFile}

ReuseInit ==
  /\ disk \in {<<f>> : f \in ReuseFiles}
  /\ ParserInit
  /\ WindowInit

\* parse() is called on an object whose parse() has returned: it starts
\* from the fields the earlier call left (nothing resets parse_success,
\* error_message or vertex_groups); the cursor is a local that starts at 0
CallAgain ==
  /\ pc \in {"done", "failed"}
  /\ Len(vertex_groups) < MaxReparsedGroups
  /\ pc' = "new"
  /\ i' = 0
  /\ UNCHANGED <<disk, data, vertex_groups, error_message, parse_success, vertices,
                 winvars>>

\* between two calls the file at the object's path is replaced or removed
ChangeFile ==
  /\ pc \in {"done", "failed"}
  /\ \E f \in ReuseFiles \ {disk[1]} : disk' = <<f>>
  /\ UNCHANGED <<parservars, winvars>>

ReuseNext == ScanNext \/ CallAgain \/ ChangeFile

SpecReuse == ReuseInit /\ [][ReuseNext]_vars

\* ------------------------------------------------------------- the window

\* a float32 holding n / d (d a power of two), as the fraction in lowest terms
RECURSIVE Float32(_, _)
Float32(n, d) ==
  IF d > 1 /\ n % 2 = 0 THEN Float32(n \div 2, d \div 2) ELSE <<n, d>>

ScaleDivisor == 256

\* vertices exported undivided whatever the scale option is
ExportVertices_Unscaled(verts, scale) ==
  [k \in 1 .. Len(verts) |-> [c \in 1 .. 3 |-> Float32(verts[k][c], 1)]]

\* np.array(self.original_vertices, dtype=np.float32), divided by 256.0 when
\* the scale option is on
ExportVertices(verts, scale) ==
  [k \in 1 .. Len(verts) |->
     [c \in 1 .. 3 |-> Float32(verts[k][c], IF scale THEN ScaleDivisor ELSE 1)]]

Zeros(n) == [k \in 1 .. n |-> <<0, 0>>]

\* the UV list without the zero fill of groups that have no UVs
GlobalUVs_NoFill(groups, nvertices) ==
  Flatten([k \in 1 .. Len(groups) |-> groups[k].uvs])

\* global_uvs: the groups' UVs in vertex order, zeros for a group whose UV
\* count is not its vertex count, cut or zero-padded to nvertices entries
GlobalUVs(groups, nvertices) ==
  LET all == Flatten([k \in 1 .. Len(groups) |->
                        IF Len(groups[k].uvs) = Len(groups[k].vertices)
                        THEN groups[k].uvs
                        ELSE Zeros(Len(groups[k].vertices))])
  IN  IF Len(all) < nvertices THEN all \o Zeros(nvertices - Len(all))
      ELSE IF Len(all) > nvertices THEN SubSeq(all, 1, nvertices)
      ELSE all

VLine(v) == [kind |-> "v", nums |-> v]

VTLine(uv) == [kind |-> "vt", nums |-> uv]

\* a face line that keeps the 0-based indices
FLine_ZeroBased(t) ==
  [kind |-> "f", nums |-> <<<<t[1], t[1]>>, <<t[2], t[2]>>, <<t[3], t[3]>>>>]

FLine(t) ==
  [kind |-> "f", nums |-> <<<<t[1] + 1, t[1] + 1>>, <<t[2] + 1, t[2] + 1>>,
                            <<t[3] + 1, t[3] + 1>>>>]

\* face lines that follow the show-inactive toggle
FaceLines_Shown(groups) ==
  Flatten([k \in 1 .. Len(groups) |->
             [j \in 1 .. Len(groups[k].mesh_active_faces) |->
                FLine(groups[k].mesh_active_faces[j])]
             \o (IF mesh_inactive = "visible"
                 THEN [j \in 1 .. Len(groups[k].mesh_inactive_faces) |->
                         FLine(groups[k].mesh_inactive_faces[j])]
                 ELSE << >>)])

\* one f line per active mesh face, group after group
FaceLines(groups) ==
  Flatten([k \in 1 .. Len(groups) |->
             [j \in 1 .. Len(groups[k].mesh_active_faces) |->
                FLine(groups[k].mesh_active_faces[j])]])

\* obj_lines: the document export_to_obj builds
ObjLines(verts, groups, scale) ==
  LET vs  == ExportVertices(verts, scale)
      uvs == GlobalUVs(groups, Len(vs))
  IN  [k \in 1 .. Len(vs) |-> VLine(vs[k])]
      \o [k \in 1 .. Len(uvs) |-> VTLine(uvs[k])]
      \o FaceLines(groups)

\* what render_model leaves in mesh_groups and mesh_inactive
RenderedGroups(groups) ==
  SelectSeq([k \in 1 .. Len(groups) |-> k],
            LAMBDA k : groups[k].mesh_active_faces # << >>)

RenderedInactive(groups) ==
  IF \E k \in 1 .. Len(groups) : groups[k].mesh_inactive_faces # << >>
  THEN "hidden" ELSE "none"

\* `self.parser and self.parser.parse_success`
ModelLoaded == parser # << >> /\ parser[1].parse_success

\* the division written back into the list render_model was given
KeptVertices_InPlace(verts, scale) ==
  IF scale
  THEN [k \in 1 .. Len(verts) |-> [c \in 1 .. 3 |-> verts[k][c] \div ScaleDivisor]]
  ELSE verts

\* the list render_model was given, after it: vertices_np is a new array,
\* whether divided or not, and the list stays as it was
KeptVertices(verts, scale) == verts

\* render_model_with_current_settings()
Rerender ==
  IF ModelLoaded
  THEN /\ mesh_groups' = RenderedGroups(parser[1].vertex_groups)
       /\ mesh_inactive' = RenderedInactive(parser[1].vertex_groups)
       /\ original_vertices' = KeptVertices(original_vertices, scale_enabled')
  ELSE UNCHANGED <<mesh_groups, mesh_inactive, original_vertices>>

\* a failed open that stores the parser all the same
OpenedParser_Always(p, old) == <<p>>

\* a new parser that starts from the group list of the one before it
OpenedParser_Accumulating(p, old) ==
  IF ~p.returned THEN old
  ELSE IF old = << >> THEN <<p>>
  ELSE <<[p EXCEPT !.vertex_groups = old[1].vertex_groups \o p.vertex_groups]>>

\* self.parser after open_file made parser p: set on success only
OpenedParser(p, old) == IF p.returned THEN <<p>> ELSE old

\* the streams random() may yield
ColorStreams == {<<"red", "blue">>, <<"blue", "red">>}

\* an open that takes the vertices of the parser it made also when the parse
\* failed
Opened_TakesVertices(path, p) ==
  /\ parser' = OpenedParser(p, parser)
  /\ original_vertices' = p.vertices
  /\ IF p.returned
     THEN /\ mesh_groups' = RenderedGroups(p.vertex_groups)
          /\ mesh_inactive' = RenderedInactive(p.vertex_groups)
          /\ window_title' = path
          /\ dialog' = NoDialog
     ELSE /\ dialog' = [kind |-> "critical", text |-> p.error_message]
          /\ UNCHANGED <<mesh_groups, mesh_inactive, window_title>>

\* open_file() once PCKParser(path).parse() made parser p
Opened(path, p) ==
  /\ parser' = OpenedParser(p, parser)
  /\ IF p.returned
     THEN /\ original_vertices' = p.vertices
          /\ mesh_groups' = RenderedGroups(p.vertex_groups)
          /\ mesh_inactive' = RenderedInactive(p.vertex_groups)
          /\ window_title' = path
          /\ dialog' = NoDialog
     ELSE /\ dialog' = [kind |-> "critical", text |-> p.error_message]
          /\ UNCHANGED <<original_vertices, mesh_groups, mesh_inactive,
                         window_title>>

\* open_file(): path 0 is a cancelled file dialog
OpenFile ==
  \E path \in 0 .. Len(disk), rnd \in ColorStreams :
    /\ opened' = path
    /\ IF path = 0
       THEN /\ dialog' = NoDialog
            /\ UNCHANGED <<parser, original_vertices, mesh_groups, mesh_inactive,
                           window_title>>
       ELSE Opened(path, [filepath |-> path] @@ parse(disk[path], rnd))
    /\ UNCHANGED <<disk, parservars, scale_enabled, current_shading, shading_index,
                   inactive_checkbox, written>>

\* the show-inactive checkbox is clicked: toggle_inactive_faces(state)
ToggleInactive ==
  /\ inactive_checkbox' = ~inactive_checkbox
  /\ mesh_inactive' = IF mesh_inactive = "none" THEN "none"
                      ELSE IF inactive_checkbox' THEN "visible" ELSE "hidden"
  /\ opened' = 0
  /\ dialog' = NoDialog
  /\ UNCHANGED <<disk, parservars, parser, original_vertices, scale_enabled,
                 current_shading, shading_index, mesh_groups, window_title, written>>

\* the scale checkbox is clicked: toggle_scale(state)
ToggleScale ==
  /\ scale_enabled' = ~scale_enabled
  /\ Rerender
  /\ opened' = 0
  /\ dialog' = NoDialog
  /\ UNCHANGED <<disk, parservars, parser, current_shading, shading_index,
                 inactive_checkbox, window_title, written>>

\* the other entry of the shading combo is chosen: change_shading(index)
ChangeShading ==
  /\ shading_index' = 1 - shading_index
  /\ current_shading' = <<"Flat", "Smooth">>[shading_index' + 1]
  /\ UNCHANGED scale_enabled
  /\ Rerender
  /\ opened' = 0
  /\ dialog' = NoDialog
  /\ UNCHANGED <<disk, parservars, parser, inactive_checkbox, window_title, written>>

\* an export that goes to the save dialog whether a model is loaded or not
Export_Unguarded ==
  \E outcome \in {"cancelled", "written", "ioerror"} :
    /\ opened' = 0
    /\ IF outcome = "cancelled"
       THEN /\ dialog' = NoDialog
            /\ UNCHANGED written
       ELSE IF outcome = "written"
       THEN /\ written' = ObjLines(original_vertices,
                                   IF parser = << >> THEN << >>
                                   ELSE parser[1].vertex_groups,
                                   scale_enabled)
            /\ dialog' = [kind |-> "information", text |-> "Model successfully exported"]
       ELSE /\ dialog' = [kind |-> "critical", text |-> "Failed to export model"]
            /\ UNCHANGED written
    /\ UNCHANGED <<disk, parservars, parser, original_vertices, scale_enabled,
                   current_shading, shading_index, inactive_checkbox, mesh_groups,
                   mesh_inactive, window_title>>

\* export_to_obj(): the save dialog is cancelled, or the file is written, or
\* writing it raises
Export ==
  \E outcome \in {"cancelled", "written", "ioerror"} :
    /\ opened' = 0
    /\ IF ~ModelLoaded
       THEN /\ dialog' = [kind |-> "warning", text |-> "No model loaded for export."]
            /\ UNCHANGED written
       ELSE IF outcome = "cancelled"
       THEN /\ dialog' = NoDialog
            /\ UNCHANGED written
       ELSE IF outcome = "written"
       THEN /\ written' = ObjLines(original_vertices, parser[1].vertex_groups,
                                   scale_enabled)
            /\ dialog' = [kind |-> "information", text |-> "Model successfully exported"]
       ELSE /\ dialog' = [kind |-> "critical", text |-> "Failed to export model"]
            /\ UNCHANGED written
    /\ UNCHANGED <<disk, parservars, parser, original_vertices, scale_enabled,
                   current_shading, shading_index, inactive_checkbox, mesh_groups,
                   mesh_inactive, window_title>>

\* the disks a session may find: one well-formed file, or a folder of files
\* of which some cannot be read or parsed
FolderDisk ==
  <<UnreadableFile,
    WellFormedFile(<<GroupSpec("pattern1", MaxN, TRUE, 1), GroupSpec("pattern2", 2, FALSE, 0)>>),
    OtherFile(SubSeq(EncodeGroup(GroupSpec("pattern1", 2, FALSE, 0)), 1, 9)),
    OtherFile(prefix("pattern2") \o <<1, VertexTerminator>> \o <<1, 0, 2, 0, 3, 0>>),
    WellFormedFile(<<GroupSpec("pattern2", MaxN, FALSE, 0)>>)>>

\* the groups the single files are made of: with and without UVs, with no
\* face, an active and an inactive face, an inactive face only
ModelSpecs ==
  {GroupSpec("pattern1", 0, FALSE, 0), GroupSpec("pattern1", MaxN + 1, TRUE, 0),
   GroupSpec("pattern2", MaxN, FALSE, 1), GroupSpec("pattern2", 2, TRUE, 1)}

ModelFiles == {WellFormedFile(gs) : gs \in SeqsUpTo(ModelSpecs, MaxGroups)}

\* every single group with a UV block: the encodings of a vertex list and a
\* UV list
RoundTripFiles ==
  {WellFormedFile(<<GroupSpec(p, n, TRUE, v)>>) :
     p \in {"pattern1", "pattern2"}, n \in 0 .. MaxN, v \in Variants}

Disks == {<<f>> : f \in ModelFiles \cup RoundTripFiles} \cup {FolderDisk}

Init ==
  /\ disk \in Disks
  /\ ParserInit
  /\ WindowInit

Next == OpenFile \/ ToggleInactive \/ ToggleScale \/ ChangeShading \/ Export

Spec == Init /\ [][Next]_vars

\* ------------------------------------------------------ claims on the scan

Magics == {<<238, 0>>, <<27, 2>>}

\* the bytes at offset k read as a vertex header with count n
HeaderBytesAt(k, n) ==
  /\ k + 4 <= Len(data)
  /\ SubSeq(data, k + 1, k + 2) \in Magics
  /\ data[k + 3] = n
  /\ data[k + 4] = 105

\* the loop body runs at the cursor
CursorTested == pc = "scan" /\ i + 4 < Len(data)

Finished == pc \in {"failed", "done"}

\* the offset at which the k-th group of a well-formed file starts
StartOf(gs, k) == Len(EncodeAll(SubSeq(gs, 1, k - 1)))

\* the group g found by the scan is the encoded group e, placed at offset s
SameGroup(g, e, s) ==
  /\ g.pattern = e.pattern
  /\ g.start = s
  /\ g.XX = e.XX
  /\ g.vertices = e.vertices
  /\ g.uvs = e.uvs
  /\ Len(g.active_faces) + Len(g.inactive_faces) = NFaces(e.XX)

\* C1: for every buffer that is a concatenation of well-formed groups the
\* scan succeeds and returns exactly the encoded groups, in offset order,
\* each with its N vertices, its encoded UVs and max(0, N-2) face records.
C1_RecoversEncodedGroups ==
  (Finished /\ disk[1].wellformed) =>
     /\ pc = "done"
     /\ Len(vertex_groups) = Len(disk[1].encoded)
     /\ \A k \in 1 .. Len(vertex_groups) :
          SameGroup(vertex_groups[k], disk[1].encoded[k], StartOf(disk[1].encoded, k))

Grammars ==
  {[vertex |-> <<238, 0>>, uv |-> <<196, 0>>, face |-> <<154, 0>>],
   [vertex |-> <<27, 2>>, uv |-> <<241, 1>>, face |-> <<199, 1>>]}

\* the bytes bs lie in the buffer at offset k
BytesAt(k, bs) ==
  k + Len(bs) <= Len(data) /\ SubSeq(data, k + 1, k + Len(bs)) = bs

\* end of the vertex block and of the vertex/UV block of a group of grammar
\* g with count n whose header is at offset k
VertexBlockEnd(k, n) == k + 4 + 6 * n

BlockEnd(g, k, n) ==
  IF BytesAt(VertexBlockEnd(k, n), g.uv \o <<n, 101>>)
  THEN VertexBlockEnd(k, n) + 4 + 4 * n
  ELSE VertexBlockEnd(k, n)

\* a header of grammar g with count n at the cursor whose vertex block and
\* UV block, if any, fit, but whose face signature occurs nowhere from the
\* end of that block on
MissingSignatureAt(g, k, n) ==
  /\ BytesAt(k, g.vertex \o <<n, 105>>)
  /\ BlockEnd(g, k, n) <= Len(data)
  /\ \A j \in BlockEnd(g, k, n) .. Len(data) : ~BytesAt(j, g.face \o <<n, 106>>)

C5_CountLimit ==
  [][/\ (CursorTested /\ HeaderBytesAt(i, 42))
          => \/ pc' = "failed"
             \/ /\ Len(vertex_groups') = Len(vertex_groups) + 1
                /\ vertex_groups'[Len(vertex_groups')].start = i
                /\ vertex_groups'[Len(vertex_groups')].XX = 42
     /\ (CursorTested /\ SubSeq(data, i + 1, i + 2) \in Magics /\ data[i + 3] > 42)
          => /\ pc' = "scan"
             /\ i' = i + 1
             /\ vertex_groups' = vertex_groups
             /\ error_message' = ""]_vars

\* a buffer starting with a count-0x2B header was scanned to its end, and
\* the only group found is the one with count 0x2A that follows it
C5_Witness ==
  /\ pc = "done"
  /\ BytesAt(0, <<238, 0, 43, 105>>) \/ BytesAt(0, <<27, 2, 43, 105>>)
  /\ Len(vertex_groups) = 1
  /\ vertex_groups[1].start = 4
  /\ vertex_groups[1].XX = 42
  /\ Len(vertex_groups[1].vertices) = 42

\* how often x occurs in the sequence s
Occurrences(s, x) == Cardinality({j \in 1 .. Len(s) : s[j] = x})

\* the k-th face record of group g as the buffer holds it
FaceRecordAt(g, k) ==
  [indices |-> <<k, k + 1, k + 2>>,
   byte    |-> data[g.faces_offset + 4 + 6 + 3 * (k - 1) + 1]]

\* C6: every face record of a group is in exactly one of its two lists:
\* once in the active list and not in the inactive one when its first byte
\* is even (0 included), once in the inactive list and not in the active
\* one when it is odd; the lists hold nothing else.
C6_FacePartition ==
  \A x \in 1 .. Len(vertex_groups) :
    LET g == vertex_groups[x]
    IN  /\ \A k \in 1 .. NFaces(g.XX) :
             LET f == FaceRecordAt(g, k)
             IN  IF f.byte % 2 = 0
                 THEN Occurrences(g.active_faces, f) = 1
                      /\ Occurrences(g.inactive_faces, f) = 0
                 ELSE Occurrences(g.inactive_faces, f) = 1
                      /\ Occurrences(g.active_faces, f) = 0
        /\ Len(g.active_faces) + Len(g.inactive_faces) = NFaces(g.XX)

\* a group with an active face of byte 0, an active face of a nonzero even
\* byte and an inactive face
C6_Witness ==
  \E x \in 1 .. Len(vertex_groups) :
    LET g == vertex_groups[x]
    IN  /\ \E k \in 1 .. Len(g.active_faces) : g.active_faces[k].byte = 0
        /\ \E k \in 1 .. Len(g.active_faces) : g.active_faces[k].byte = 2
        /\ \E k \in 1 .. Len(g.inactive_faces) : g.inactive_faces[k].byte = 255

\* the scan returned True
ScanSucceeded == pc \in {"remap", "done"}

\* C7: every group of a successful scan has exactly N vertices, 0 or N UV
\* pairs, and active plus inactive face records numbering N-2 when N >= 2
\* and 0 when N is 0 or 1.
C7_GroupCounts ==
  ScanSucceeded =>
    \A x \in 1 .. Len(vertex_groups) :
      LET g == vertex_groups[x]
      IN  /\ Len(g.vertices) = g.XX
          /\ Len(g.uvs) \in {0, g.XX}
          /\ Len(g.active_faces) + Len(g.inactive_faces)
               = IF g.XX >= 2 THEN g.XX - 2 ELSE 0

\* a successful scan with a group of count 1 and a group of count 3 that
\* has UVs and a face
C7_Witness ==
  /\ ScanSucceeded
  /\ \E x \in 1 .. Len(vertex_groups) : vertex_groups[x].XX = 1
  /\ \E x \in 1 .. Len(vertex_groups) :
       /\ vertex_groups[x].XX = 3
       /\ Len(vertex_groups[x].uvs) = 3
       /\ Len(vertex_groups[x].active_faces) + Len(vertex_groups[x].inactive_faces) = 1

\* C8: parsing the 35 bytes EE 00 03 69, 18 zeros, 9A 00 03 6A, 6 padding
\* bytes, 00 00 00 succeeds with one group of grammar A at offset 0: three
\* vertices (0,0,0), no UVs, one active face (1,2,3), no inactive face.
C8_Scenario ==
  (Finished /\ disk[1].readable /\ disk[1].bytes = ScenarioBytes) =>
     /\ pc = "done"
     /\ parse_success
     /\ Len(vertex_groups) = 1
     /\ vertex_groups[1].pattern = "pattern1"
     /\ vertex_groups[1].start = 0
     /\ vertex_groups[1].XX = 3
     /\ vertex_groups[1].vertices = <<<<0, 0, 0>>, <<0, 0, 0>>, <<0, 0, 0>>>>
     /\ vertex_groups[1].uvs = << >>
     /\ Len(vertex_groups[1].active_faces) = 1
     /\ vertex_groups[1].active_faces[1].indices = <<1, 2, 3>>
     /\ vertex_groups[1].inactive_faces = << >>

\* the parse of the 35-byte buffer has returned
C8_Witness ==
  /\ pc = "done"
  /\ Len(data) = 35
  /\ data = ScenarioBytes

\* ---------------------------------------------------- claims on the window

\* the outcome of parsing the file at path (the colours drawn do not bear on
\* success or on the error message)
Outcome(path) == parse(disk[path], <<"red">>)

\* the parsers PCKParser(path).parse() may make, one per stream of colours
ParsersOf(path) == {[filepath |-> path] @@ parse(disk[path], rnd) : rnd \in ColorStreams}

\* C4: an open_file() whose parse fails (unreadable file, structural error,
\* face signature not found) leaves the window's parser, its groups, the
\* stored original vertices, the rendered meshes and the title as the last
\* successful open set them, and shows the parser's error message in a
\* critical dialog; a successful open stores the parser it made and its
\* vertices.
C4_FailedOpenKeepsModel ==
  [][opened' # 0 =>
       IF Outcome(opened').returned
       THEN /\ parser' \in {<<p>> : p \in ParsersOf(opened')}
            /\ original_vertices' = parser'[1].vertices
       ELSE /\ parser' = parser
            /\ original_vertices' = original_vertices
            /\ mesh_groups' = mesh_groups
            /\ mesh_inactive' = mesh_inactive
            /\ window_title' = window_title
            /\ dialog' = [kind |-> "critical",
                          text |-> Outcome(opened').error_message]]_vars

\* a model is loaded and the open of another file has just failed on a
\* truncated vertex block
C4_Witness ==
  /\ opened # 0
  /\ dialog = [kind |-> "critical", text |-> ErrVertices]
  /\ parser # << >>
  /\ parser[1].filepath # opened
  /\ parser[1].vertex_groups # << >>
  /\ original_vertices = parser[1].vertices

\* the lines of one kind of the written document, in order
LinesOf(kind) == SelectSeq(written, LAMBDA l : l.kind = kind)

\* the document in `written` is the one the export that has just succeeded
\* wrote
JustExported == dialog.kind = "information"

\* C9: the exported document has as many vt lines as v lines, one per global
\* vertex; the vt line of a group's j-th vertex carries the group's j-th UV
\* when the group has as many UVs as vertices, and (0,0) otherwise.
C9_UVLinesMatchVertices ==
  JustExported =>
    LET vt == LinesOf("vt")
        groups == parser[1].vertex_groups
    IN  /\ Len(vt) = Len(LinesOf("v"))
        /\ Len(vt) = Len(original_vertices)
        /\ \A k \in 1 .. Len(groups) :
             \A j \in 1 .. Len(groups[k].vertices) :
               vt[groups[k].base_index + j].nums =
                 IF Len(groups[k].uvs) = Len(groups[k].vertices)
                 THEN groups[k].uvs[j]
                 ELSE <<0, 0>>

\* a model whose first group has vertices and no UVs and whose second group
\* has UVs has been exported
C9_Witness ==
  /\ JustExported
  /\ Len(parser[1].vertex_groups) = 2
  /\ parser[1].vertex_groups[1].uvs = << >>
  /\ parser[1].vertex_groups[1].vertices # << >>
  /\ parser[1].vertex_groups[2].uvs # << >>
  /\ \E j \in 1 .. Len(parser[1].vertex_groups[2].uvs) :
       parser[1].vertex_groups[2].uvs[j] # <<0, 0>>

\* the f line of a triangle with 1-based indices local to a group that
\* starts at global vertex base_index
FLineOf(face, base_index) ==
  [kind |-> "f",
   nums |-> [c \in 1 .. 3 |-> <<face.indices[c] + base_index,
                                face.indices[c] + base_index>>]]

\* C10: the f lines of the exported document are, group after group, one
\* line per active triangle of the group, in the triangles' order; no f line
\* is the line of an inactive triangle; this holds whatever the show-inactive
\* checkbox, the scale option and the shading mode are.
C10_OnlyActiveFacesExported ==
  JustExported =>
    LET groups == parser[1].vertex_groups
    IN  /\ LinesOf("f") =
             Flatten([k \in 1 .. Len(groups) |->
                        [j \in 1 .. Len(groups[k].active_faces) |->
                           FLineOf(groups[k].active_faces[j], groups[k].base_index)]])
        /\ \A k \in 1 .. Len(groups) :
             \A j \in 1 .. Len(groups[k].inactive_faces) :
               \A n \in 1 .. Len(written) :
                 written[n] # FLineOf(groups[k].inactive_faces[j],
                                      groups[k].base_index)

\* a model with an active and an inactive triangle has been exported while
\* the inactive faces are shown
C10_Witness ==
  /\ JustExported
  /\ inactive_checkbox
  /\ mesh_inactive = "visible"
  /\ \E k \in 1 .. Len(parser[1].vertex_groups) :
       /\ parser[1].vertex_groups[k].active_faces # << >>
       /\ parser[1].vertex_groups[k].inactive_faces # << >>
  /\ LinesOf("f") # << >>

\* the globally indexed active triangles of the loaded model, group after
\* group
GlobalActiveFaces ==
  Flatten([k \in 1 .. Len(parser[1].vertex_groups) |->
             parser[1].vertex_groups[k].mesh_active_faces])

\* C11: the n-th f line is that of the n-th globally indexed active triangle
\* (a,b,c) and reads a+1/a+1 b+1/b+1 c+1/c+1; every index written lies
\* between 1 and the number of v lines, which is the number of vt lines.
C11_FaceLineIndices ==
  JustExported =>
    LET f == LinesOf("f")
    IN  /\ Len(f) = Len(GlobalActiveFaces)
        /\ \A n \in 1 .. Len(f) :
             /\ Len(f[n].nums) = 3
             /\ \A c \in 1 .. 3 :
                  /\ f[n].nums[c] = <<GlobalActiveFaces[n][c] + 1,
                                      GlobalActiveFaces[n][c] + 1>>
                  /\ 1 <= f[n].nums[c][1]
                  /\ f[n].nums[c][1] <= Len(LinesOf("v"))
                  /\ f[n].nums[c][2] <= Len(LinesOf("vt"))

\* a two-group model has been exported whose second group has an active
\* triangle, so that an f line starts at the first vertex of the second group
C11_Witness ==
  /\ JustExported
  /\ Len(parser[1].vertex_groups) = 2
  /\ parser[1].vertex_groups[2].base_index > 0
  /\ parser[1].vertex_groups[2].mesh_active_faces # << >>
  /\ \E n \in 1 .. Len(LinesOf("f")) :
       LinesOf("f")[n].nums[1][1] = parser[1].vertex_groups[2].base_index + 1

\* what the scale option divides by
Divisor == IF scale_enabled THEN ScaleDivisor ELSE 1

\* whether the written number num, a fraction <<n, d>>, is decoded / by
IsQuotient(num, decoded, by) == num[2] > 0 /\ num[1] * by = decoded * num[2]

\* the decoded UV of each global vertex of the loaded model ((0,0) where the
\* group has none)
DecodedUVs ==
  Flatten([k \in 1 .. Len(parser[1].vertex_groups) |->
             [j \in 1 .. Len(parser[1].vertex_groups[k].vertices) |->
                IF Len(parser[1].vertex_groups[k].uvs) =
                   Len(parser[1].vertex_groups[k].vertices)
                THEN parser[1].vertex_groups[k].uvs[j]
                ELSE <<0, 0>>]])

\* every component of every v line is the decoded component over Divisor
VertexLinesDivided ==
  LET v == LinesOf("v")
  IN  /\ Len(v) = Len(original_vertices)
      /\ \A k \in 1 .. Len(v) : \A c \in 1 .. 3 :
           IsQuotient(v[k].nums[c], original_vertices[k][c], Divisor)

\* C12 as claimed: with the scale option on, every component of every v line
\* and of every vt line is the decoded value divided by 256; with the option
\* off both are written undivided.
C12_ScaleDividesAll ==
  JustExported =>
    /\ VertexLinesDivided
    /\ Len(LinesOf("vt")) = Len(DecodedUVs)
    /\ \A k \in 1 .. Len(DecodedUVs) : \A c \in 1 .. 2 :
         LinesOf("vt")[k].nums[c] * Divisor = DecodedUVs[k][c]

\* C12, amended: with the scale option on, every component of every v line
\* is the decoded value divided by 256, and with the option off it is the
\* decoded value; the vt lines carry the decoded UV integers undivided
\* whether the option is on or off.
C12_ScaleDividesVertices ==
  JustExported =>
    /\ VertexLinesDivided
    /\ Len(LinesOf("vt")) = Len(DecodedUVs)
    /\ \A k \in 1 .. Len(DecodedUVs) :
         LinesOf("vt")[k].nums = DecodedUVs[k]

\* a model with a vertex component that 256 does not divide and a UV that is
\* not zero has been exported with the scale option on
C12_Witness ==
  /\ JustExported
  /\ scale_enabled
  /\ \E k \in 1 .. Len(LinesOf("v")) : \E c \in 1 .. 3 :
       LinesOf("v")[k].nums[c][2] = ScaleDivisor
  /\ \E k \in 1 .. Len(LinesOf("vt")) : LinesOf("vt")[k].nums[1] # 0

\* C13: whatever toggles of the scale option, renderings and exports came
\* since the model was opened, the window's original vertices and the
\* parser's groups (their vertices and UVs among the rest) are those a parse
\* of the opened file decodes, and an unscaled export writes the document of
\* those decoded values.
C13_DecodedValuesKept ==
  ModelLoaded =>
    \E p \in ParsersOf(window_title) :
      /\ parser[1] = p
      /\ original_vertices = p.vertices
      /\ \A k \in 1 .. Len(p.vertex_groups) :
           /\ parser[1].vertex_groups[k].vertices = p.vertex_groups[k].vertices
           /\ parser[1].vertex_groups[k].uvs = p.vertex_groups[k].uvs
      /\ (JustExported /\ ~scale_enabled) =>
           written = ObjLines(p.vertices, p.vertex_groups, FALSE)

\* the scale option has been switched on and the shading mode changed (two
\* renderings) and an export made, of a model with a vertex component that
\* 256 does not divide
C13_Witness ==
  /\ ModelLoaded
  /\ JustExported
  /\ scale_enabled
  /\ shading_index = 1
  /\ \E k \in 1 .. Len(original_vertices) : \E c \in 1 .. 3 :
       original_vertices[k][c] % ScaleDivisor # 0

\* a parser without the display colours of its groups
Structure(p) ==
  [p EXCEPT !.vertex_groups =
     [k \in 1 .. Len(p.vertex_groups) |-> [p.vertex_groups[k] EXCEPT !.color = "any"]]]

OneGroupFile(f) == f.wellformed /\ Len(f.encoded) = 1 /\ f.encoded[1].has_uv

\* the v and vt lines of the written document are the values file f encodes
WrittenValuesOf(f) ==
  /\ LinesOf("v") = [k \in 1 .. f.encoded[1].XX |->
                       [kind |-> "v",
                        nums |-> [c \in 1 .. 3 |-> <<f.encoded[1].vertices[k][c], 1>>]]]
  /\ LinesOf("vt") = [k \in 1 .. f.encoded[1].XX |->
                        [kind |-> "vt", nums |-> f.encoded[1].uvs[k]]]

\* C15: the encoding of a vertex list and a UV list as one well-formed group
\* parses, and its unscaled export has v and vt lines whose numbers are the
\* encoded values, in the encoded order and field order.
C15_RoundTrip ==
  /\ (opened # 0 /\ OneGroupFile(disk[opened])) =>
       /\ dialog = NoDialog
       /\ parser # << >>
       /\ parser[1].filepath = opened
  /\ (ModelLoaded /\ JustExported /\ ~scale_enabled
      /\ OneGroupFile(disk[window_title])) =>
       WrittenValuesOf(disk[window_title])

\* ------------------------------------------------- more claims on the scan

\* C16: at every point of a scan the start offsets of the groups found so
\* far increase strictly along the list: every later group starts at a
\* greater offset than every earlier one.
C16_StartsIncrease ==
  \A k \in 1 .. Len(vertex_groups) : \A l \in 1 .. Len(vertex_groups) :
    k < l => vertex_groups[k].start < vertex_groups[l].start

\* a scan has ended with two groups of which the first has no vertex, so
\* that the cursor went back into its padding before the second was found
C16_Witness ==
  /\ pc = "done"
  /\ Len(vertex_groups) = 2
  /\ vertex_groups[1].XX = 0
  /\ vertex_groups[2].XX > 0

\* the number of vertices of the groups before the k-th
VerticesBefore(k) ==
  Len(Flatten([j \in 1 .. k - 1 |-> vertex_groups[j].vertices]))

\* the triangle of face record f of a group that starts at global vertex base
GlobalTriple(f, base) == [c \in 1 .. 3 |-> f.indices[c] - 1 + base]

\* C17: after a successful parse the global vertex array is the groups'
\* vertex lists one after the other in scan order, each group's base index
\* is the number of vertices of the groups before it, and the group's
\* globally indexed triangles are its local triples, one for one and in
\* order, with every index mapped to local - 1 + base.
C17_GlobalIndices ==
  pc = "done" =>
    /\ vertices = Flatten([k \in 1 .. Len(vertex_groups) |-> vertex_groups[k].vertices])
    /\ \A k \in 1 .. Len(vertex_groups) :
         LET g == vertex_groups[k]
         IN  /\ g.base_index = VerticesBefore(k)
             /\ g.mesh_active_faces =
                  [j \in 1 .. Len(g.active_faces) |->
                     GlobalTriple(g.active_faces[j], VerticesBefore(k))]
             /\ g.mesh_inactive_faces =
                  [j \in 1 .. Len(g.inactive_faces) |->
                     GlobalTriple(g.inactive_faces[j], VerticesBefore(k))]

\* a parse has ended with two groups of which the second has a triangle and
\* starts at a global index other than 0
C17_Witness ==
  /\ pc = "done"
  /\ Len(vertex_groups) = 2
  /\ vertex_groups[2].base_index > 0
  /\ vertex_groups[2].mesh_active_faces \o vertex_groups[2].mesh_inactive_faces # << >>
  /\ Len(vertices) = Len(vertex_groups[1].vertices) + Len(vertex_groups[2].vertices)

\* a vertex header of either grammar with a count the scan accepts lies at
\* the cursor
HeaderAtCursor == \E n \in 0 .. MaxXX : HeaderBytesAt(i, n)

\* C18: whenever at least 4 bytes remain at the cursor (i + 4 <= buffer
\* length), the last 4 bytes of the buffer included, the scan goes on and
\* tests the cursor against the vertex headers: it does not leave the loop
\* there, and a header lying there is read as a group or fails the scan.
C18_LastHeaderTested ==
  [][(pc = "scan" /\ i + 4 <= Len(data)) =>
       /\ pc' \in {"scan", "failed"}
       /\ HeaderAtCursor =>
            \/ pc' = "failed"
            \/ Len(vertex_groups') = Len(vertex_groups) + 1]_vars

\* the end of the face block of found group g: its signature, the 6 padding
\* bytes and its face records
FaceBlockEnd(g) ==
  g.faces_offset + 4 + 6 + 3 * (IF g.XX >= 2 THEN g.XX - 2 ELSE 0)

\* C19: the step that accepts a group leaves the cursor at the end of the
\* group's face block (signature, 6 padding bytes, face records), whatever N
\* in 0..42 is, and the group it accepts starts at or after the end of every
\* group accepted before it.
C19_CursorPastFaceBlock ==
  [][Len(vertex_groups') = Len(vertex_groups) + 1 =>
       LET g == vertex_groups'[Len(vertex_groups')]
       IN  /\ i' = FaceBlockEnd(g)
           /\ \A k \in 1 .. Len(vertex_groups) :
                g.start >= FaceBlockEnd(vertex_groups[k])]_vars

\* a header of grammar g with count n at offset k whose vertex block and UV
\* block, if any, fit and whose face signature is found, at pos, with less
\* than the signature, 6 padding bytes and the face records left from there
ShortFaceSectionAt(g, k, n, pos) ==
  /\ BytesAt(k, g.vertex \o <<n, 105>>)
  /\ BlockEnd(g, k, n) <= pos
  /\ BytesAt(pos, g.face \o <<n, 106>>)
  /\ \A j \in BlockEnd(g, k, n) .. pos - 1 : ~BytesAt(j, g.face \o <<n, 106>>)
  /\ pos + 4 + 6 + 3 * (IF n >= 2 THEN n - 2 ELSE 0) > Len(data)

\* C20: when the header tested at the cursor has its face signature in the
\* buffer but the signature, the 6 padding bytes and the face records do not
\* all lie inside the buffer, the parse fails with 'Corrupted or incomplete
\* PCK file (faces).' and no group is appended, whatever N in 0..42 is; the
\* face block of every group that is accepted lies inside the buffer.
C20_FaceSectionInsideBuffer ==
  [][/\ (CursorTested /\ \E g \in Grammars, n \in 0 .. 42, pos \in 0 .. Len(data) :
                           ShortFaceSectionAt(g, i, n, pos))
          => /\ pc' = "failed"
             /\ error_message' = "Corrupted or incomplete PCK file (faces)."
             /\ vertex_groups' = vertex_groups
     /\ Len(vertex_groups') = Len(vertex_groups) + 1
          => FaceBlockEnd(vertex_groups'[Len(vertex_groups')]) <= Len(data)]_vars

\* the 2-byte magic of a grammar lies at offset k, but with a count byte
\* above 0x2A or a fourth byte other than 0x69, and no vertex header of
\* either grammar lies there
FalsePositiveAt(k) ==
  /\ \E g \in Grammars :
       /\ BytesAt(k, g.vertex)
       /\ k + 4 <= Len(data)
       /\ data[k + 3] > 42 \/ data[k + 4] # 105
  /\ \A g \in Grammars, n \in 0 .. 42 : ~BytesAt(k, g.vertex \o <<n, 105>>)

\* C21: where the loop body runs on a grammar's magic whose count byte is
\* above 0x2A or whose fourth byte is not 0x69, the scan goes on without an
\* error: no group is made, the group list and the error message stay as
\* they are, and the cursor advances by exactly one byte.
C21_FalsePositiveSkipped ==
  [][(CursorTested /\ FalsePositiveAt(i)) =>
       /\ pc' = "scan"
       /\ error_message' = error_message
       /\ vertex_groups' = vertex_groups
       /\ parse_success' = parse_success
       /\ i' = i + 1]_vars

\* a buffer that starts with a magic, a count within range and a fourth
\* byte other than 0x69 was scanned to its end and the sound group behind
\* these bytes is the only one found
C21_Witness ==
  /\ pc = "done"
  /\ Len(data) >= 4
  /\ \E g \in Grammars : BytesAt(0, g.vertex)
  /\ data[3] <= 42
  /\ data[4] # 105
  /\ error_message = ""
  /\ Len(vertex_groups) = 1
  /\ vertex_groups[1].start > 0

\* the grammar of found group g
GrammarOf(g) == CHOOSE gr \in Grammars : BytesAt(g.start, gr.vertex)

\* the signed 16-bit little-endian number at offset k of the buffer
Signed16At(k) ==
  LET u == data[k + 1] + 256 * data[k + 2]
  IN  IF u >= 32768 THEN u - 65536 ELSE u

\* the face signature of found group g lies at its faces_offset and nowhere
\* from offset from up to there
FaceSearchFrom(g, from) ==
  /\ from <= g.faces_offset
  /\ BytesAt(g.faces_offset, GrammarOf(g).face \o <<g.XX, 106>>)
  /\ \A j \in from .. g.faces_offset - 1 :
       ~BytesAt(j, GrammarOf(g).face \o <<g.XX, 106>>)

\* C22: a group found by the scan has its N UVs, decoded from the N 4-byte
\* pairs behind the header, when the 4 bytes right after its vertex block
\* are its grammar's UV magic, its N and 0x65, and its face signature is
\* then searched from the end of the UV block; in every other case it has
\* no UVs and the face signature is searched from the end of the vertex
\* block.
C22_OptionalUVBlock ==
  \A x \in 1 .. Len(vertex_groups) :
    LET g    == vertex_groups[x]
        vend == VertexBlockEnd(g.start, g.XX)
    IN  IF BytesAt(vend, GrammarOf(g).uv \o <<g.XX, 101>>)
        THEN /\ g.uvs = [k \in 1 .. g.XX |->
                           <<Signed16At(vend + 4 + 4 * (k - 1)),
                             Signed16At(vend + 4 + 4 * (k - 1) + 2)>>]
             /\ FaceSearchFrom(g, vend + 4 + 4 * g.XX)
        ELSE /\ g.uvs = << >>
             /\ FaceSearchFrom(g, vend)

\* a scan has ended with a group of N > 0 vertices whose vertex block is
\* followed by its grammar's UV magic, a count other than N and 0x65, and
\* the group has no UVs
C22_Witness ==
  /\ pc = "done"
  /\ vertex_groups # << >>
  /\ vertex_groups[1].XX > 0
  /\ vertex_groups[1].uvs = << >>
  /\ BytesAt(VertexBlockEnd(vertex_groups[1].start, vertex_groups[1].XX),
             GrammarOf(vertex_groups[1]).uv)
  /\ data[VertexBlockEnd(vertex_groups[1].start, vertex_groups[1].XX) + 3]
       # vertex_groups[1].XX
  /\ data[VertexBlockEnd(vertex_groups[1].start, vertex_groups[1].XX) + 4] = 101

\* the face records of found group g, active and inactive
FaceRecords(g) == g.active_faces \o g.inactive_faces

\* C23: every face record of every group found by the scan is the record of
\* some k-th 3-byte entry of the group's face block, k from 1: it carries
\* that entry's first byte and the index triple (k, k+1, k+2), and its three
\* indices lie between 1 and N; within each list the records follow the
\* order of their entries.
C23_ConsecutiveTriples ==
  \A x \in 1 .. Len(vertex_groups) :
    LET g == vertex_groups[x]
    IN  /\ \A j \in 1 .. Len(FaceRecords(g)) :
             LET f == FaceRecords(g)[j]
                 k == f.indices[1]
             IN  /\ k >= 1
                 /\ f.indices = <<k, k + 1, k + 2>>
                 /\ f.indices[3] <= g.XX
                 /\ g.faces_offset + 4 + 6 + 3 * k <= Len(data)
                 /\ f.byte = data[g.faces_offset + 4 + 6 + 3 * (k - 1) + 1]
        /\ \A l \in {g.active_faces, g.inactive_faces} :
             \A a \in 1 .. Len(l) : \A b \in 1 .. Len(l) :
               a < b => l[a].indices[1] < l[b].indices[1]

\* a scan has ended with a group of 42 vertices whose 40 face records reach
\* the triple (40, 41, 42)
C23_Witness ==
  /\ pc = "done"
  /\ vertex_groups # << >>
  /\ vertex_groups[1].XX = 42
  /\ Len(FaceRecords(vertex_groups[1])) = 40
  /\ \E j \in 1 .. 40 : FaceRecords(vertex_groups[1])[j].indices = <<40, 41, 42>>

\* C24: the remapping of the groups of a successful scan drops no face and
\* does not fail: it ends the parse with success and without an error
\* message, every translated index of every local face record lies within
\* 0 <= index < length of the global array, and each group has as many
\* global active and inactive triangles as local active and inactive face
\* records.
C24_RemapDropsNothing ==
  [][pc = "remap" =>
       /\ pc' = "done"
       /\ parse_success'
       /\ error_message' = ""
       /\ Len(vertex_groups') = Len(vertex_groups)
       /\ \A x \in 1 .. Len(vertex_groups) :
            /\ Len(vertex_groups'[x].mesh_active_faces) = Len(vertex_groups[x].active_faces)
            /\ Len(vertex_groups'[x].mesh_inactive_faces) = Len(vertex_groups[x].inactive_faces)
            /\ \A j \in 1 .. Len(FaceRecords(vertex_groups[x])) : \A c \in 1 .. 3 :
                 LET t == FaceRecords(vertex_groups[x])[j].indices[c] - 1
                            + vertex_groups'[x].base_index
                 IN  0 <= t /\ t < Len(vertices')]_vars

\* a parse has ended with two groups that have a triangle each, the second
\* one's indices translated by its base
C24_Witness ==
  /\ pc = "done"
  /\ Len(vertex_groups) = 2
  /\ FaceRecords(vertex_groups[1]) # << >>
  /\ FaceRecords(vertex_groups[2]) # << >>
  /\ Len(vertex_groups[2].mesh_active_faces) + Len(vertex_groups[2].mesh_inactive_faces)
       = Len(FaceRecords(vertex_groups[2]))
  /\ vertex_groups[2].base_index > 0

\* C25: the remapping does not edit the groups the scanner produced: after
\* it there are the same groups in the same order, each with the grammar,
\* start offset, N, vertices, UVs and local active and inactive face records
\* it had before, and the base index and the globally indexed triangle lists
\* are fields the group did not have before.
C25_RemapKeepsGroups ==
  [][pc = "remap" =>
       /\ Len(vertex_groups') = Len(vertex_groups)
       /\ \A x \in 1 .. Len(vertex_groups) :
            LET before == vertex_groups[x]
                after  == vertex_groups'[x]
            IN  /\ after.pattern = before.pattern
                /\ after.start = before.start
                /\ after.XX = before.XX
                /\ after.vertices = before.vertices
                /\ after.uvs = before.uvs
                /\ after.active_faces = before.active_faces
                /\ after.inactive_faces = before.inactive_faces
                /\ DOMAIN after \ DOMAIN before
                     = {"base_index", "mesh_active_faces", "mesh_inactive_faces"}
                /\ DOMAIN before \subseteq DOMAIN after]_vars

\* a parse has ended with a second group, based above 0, whose local face
\* records still carry local indices from 1 while its global triangles carry
\* translated ones
C25_Witness ==
  /\ pc = "done"
  /\ Len(vertex_groups) = 2
  /\ vertex_groups[2].base_index > 0
  /\ vertex_groups[2].uvs # << >>
  /\ FaceRecords(vertex_groups[2]) # << >>
  /\ FaceRecords(vertex_groups[2])[1].indices = <<1, 2, 3>>
  /\ (vertex_groups[2].mesh_active_faces \o vertex_groups[2].mesh_inactive_faces)[1][1]
       = vertex_groups[2].base_index

\* C26: the scan loop terminates. An iteration runs only at a cursor more
\* than 4 bytes before the end of the buffer, and it either finds no header
\* and moves the cursor by exactly one, or accepts a group (whatever its N,
\* also N = 0 and N = 1) and moves the cursor to a strictly greater offset
\* that is not beyond the end of the buffer, or returns failure; otherwise
\* the loop is left. The cursor of a running scan therefore grows with every
\* iteration and is bounded by the length of the buffer.
C26_ScanTerminates ==
  [][pc = "scan" =>
       \/ /\ i < Len(data) - 4
          /\ pc' = "failed"
          /\ error_message' # ""
       \/ /\ i < Len(data) - 4
          /\ pc' = "scan"
          /\ vertex_groups' = vertex_groups
          /\ i' = i + 1
       \/ /\ i < Len(data) - 4
          /\ pc' = "scan"
          /\ Len(vertex_groups') = Len(vertex_groups) + 1
          /\ vertex_groups'[Len(vertex_groups')].XX \in 0 .. 42
          /\ i' > i
          /\ i' <= Len(data)
       \/ /\ ~(i < Len(data) - 4)
          /\ pc' = "remap"]_vars

\* the loop has been left after accepting a group with N = 1 and then one
\* with N = 0, the cursor beyond the last group's start and inside the buffer
C26_Witness ==
  /\ pc = "remap"
  /\ Len(vertex_groups) = 2
  /\ vertex_groups[1].XX = 1
  /\ vertex_groups[2].XX = 0
  /\ i > vertex_groups[2].start
  /\ i <= Len(data)

\* the globally indexed triangles of a group, active ones first
MeshTriangles(g) == g.mesh_active_faces \o g.mesh_inactive_faces

\* global index t is one of the vertices of group g
OwnVertex(g, t) == g.base_index <= t /\ t < g.base_index + g.XX

\* C27: after a successful parse every index of every globally indexed
\* triangle of a group, active or inactive, lies in
\* base <= index < base + N of that group, and in the range of no other
\* group: a triangle refers to its own group's vertices only.
C27_TrianglesStayInGroup ==
  pc = "done" =>
    \A k \in 1 .. Len(vertex_groups) :
      \A j \in 1 .. Len(MeshTriangles(vertex_groups[k])) : \A c \in 1 .. 3 :
        LET t == MeshTriangles(vertex_groups[k])[j][c]
        IN  /\ OwnVertex(vertex_groups[k], t)
            /\ \A h \in 1 .. Len(vertex_groups) :
                 h # k => ~OwnVertex(vertex_groups[h], t)

\* a parse has ended with two groups that have a triangle each, the first
\* one's reaching its last vertex and the second one's starting at its base
C27_Witness ==
  /\ pc = "done"
  /\ Len(vertex_groups) = 2
  /\ MeshTriangles(vertex_groups[1]) # << >>
  /\ MeshTriangles(vertex_groups[2]) # << >>
  /\ \E j \in 1 .. Len(MeshTriangles(vertex_groups[1])) :
       MeshTriangles(vertex_groups[1])[j][3] = vertex_groups[2].base_index - 1
  /\ MeshTriangles(vertex_groups[2])[1][1] = vertex_groups[2].base_index

\* C28: whenever the window holds a parser, after any opens (successful or
\* failed), scale toggles, shading changes and exports, the window's stored
\* original vertex list is that parser's global vertex array, which is the
\* vertex lists of the parser's groups one after the other: the vertices and
\* the faces an export writes come from the same parse.
C28_OriginalVerticesOfParser ==
  parser # << >> =>
    /\ original_vertices = parser[1].vertices
    /\ original_vertices =
         Flatten([k \in 1 .. Len(parser[1].vertex_groups) |->
                    parser[1].vertex_groups[k].vertices])

\* the window holds a parser with vertices, the scale option is on, the
\* shading was changed and a document was exported, and the open of another
\* file has just failed
C28_Witness ==
  /\ parser # << >>
  /\ parser[1].vertices # << >>
  /\ scale_enabled
  /\ shading_index = 1
  /\ written # << >>
  /\ opened # 0
  /\ opened # parser[1].filepath
  /\ dialog.kind = "critical"
  /\ original_vertices = parser[1].vertices

\* C29: once a call of parse() on a PCKParser object has returned,
\* parse_success is TRUE exactly if that call returned True, and after a
\* call that returned False the error message is not empty: a call that
\* fails, for one because the file has become unreadable, does not leave
\* parse_success TRUE.
C29_FlagTellsOutcome ==
  /\ pc = "done" => parse_success
  /\ pc = "failed" => ~parse_success /\ error_message # ""

\* the window holds no parser, or one whose parse_success is FALSE
NothingLoaded == parser = << >> \/ ~parser[1].parse_success

\* C30: an export with no model loaded, whatever the save dialog would have
\* answered, shows the warning "No model loaded for export." and does
\* nothing else: no document is written and the window is as it was. No step
\* taken with no model loaded writes a document or shows the dialog of a
\* finished or failed export.
C30_ExportNeedsModel ==
  [][NothingLoaded =>
       /\ written' = written
       /\ dialog'.kind # "information"
       /\ dialog'.text # "Failed to export model"
       /\ Export =>
            /\ dialog' = [kind |-> "warning", text |-> "No model loaded for export."]
            /\ parser' = parser
            /\ original_vertices' = original_vertices
            /\ mesh_groups' = mesh_groups
            /\ window_title' = window_title]_vars

\* in a session with a folder of files no file has been opened with success,
\* the scale option was turned on, and an export has just been refused
C30_Witness ==
  /\ parser = << >>
  /\ original_vertices = << >>
  /\ Len(disk) > 1
  /\ scale_enabled
  /\ written = << >>
  /\ dialog = [kind |-> "warning", text |-> "No model loaded for export."]

====
